---- MODULE Spec2Model ----
(***************************************************************************)
(* Model of the financial-analyst assistant: the chat page of              *)
(* src/stream.py (app) calling the tool-call orchestration loop of         *)
(* src/main.py (run_assistant), which drives one thread/run of the agent   *)
(* service through a poll/act cycle and dispatches the requested tool      *)
(* calls to the six retrieval operations.                                  *)
(*                                                                         *)
(* The agent service and the data provider are the environment: every poll *)
(* may answer with any status, any pending set of tool calls, and every    *)
(* HTTP GET may fail or be answered with a body that is not JSON.  Calls   *)
(* to the agent service themselves are taken to return (the loop has no    *)
(* handler for them either way).                                           *)
(***************************************************************************)
EXTENDS Integers, Sequences, FiniteSets, TLC

\* ------------------------------------------------------------------ bounds
MaxTurns  == 2   \* user inputs per browser session
MaxRounds == 2   \* polls of one run that answer with a non-empty batch
MaxCalls  == 2   \* tool calls in one pending batch
MaxLimit  == 12  \* largest limit handed to a retrieval operation

\* ------------------------------------------------------------- environment
\* Python's None, as returned by a function that falls off its end.
None == "None"

\* Status values of a Run object of the agent service.
Statuses ==
  {"queued", "in_progress", "requires_action", "completed", "failed",
   "cancelled", "expired"}

UserInputs == {"q1"}

\* Contents (lists of text parts) of the message the agent may have produced
\* when a run completes; the empty tuple stands for "no new message".
AgentMessages == {<<"a1">>, <<"a2", "a1">>}

FMP_API_KEY == "KEY"

\* ---------------------------------------------------- retrieval operations
\* str(n) as an f-string renders a natural number.
Digits == <<"0", "1", "2", "3", "4", "5", "6", "7", "8", "9">>

RECURSIVE IntToStr(_)
IntToStr(n) ==
  IF n < 10 THEN <<Digits[n + 1]>>
  ELSE IntToStr(n \div 10) \o <<Digits[(n % 10) + 1]>>

\* Each operation builds its request from its own f-string (given here as the
\* list of its literal pieces and substituted values) and sends a GET to it.
\* Mutant: a limit below 1 is raised to 1 before it is sent.
get_income_statementAtLeastOne(ticker, period, limit) ==
  <<"https://financialmodelingprep.com/api/v3/", "income-statement", "/", ticker,
    "?period=", period, "&limit=", IntToStr(IF limit < 1 THEN 1 ELSE limit),
    "&apikey=", FMP_API_KEY>>

get_income_statement(ticker, period, limit) ==
  <<"https://financialmodelingprep.com/api/v3/", "income-statement", "/", ticker,
    "?period=", period, "&limit=", IntToStr(limit), "&apikey=", FMP_API_KEY>>

get_balance_sheet(ticker, period, limit) ==
  <<"https://financialmodelingprep.com/api/v3/", "balance-sheet-statement", "/", ticker,
    "?period=", period, "&limit=", IntToStr(limit), "&apikey=", FMP_API_KEY>>

get_cash_flow_statement(ticker, period, limit) ==
  <<"https://financialmodelingprep.com/api/v3/", "cash-flow-statement", "/", ticker,
    "?period=", period, "&limit=", IntToStr(limit), "&apikey=", FMP_API_KEY>>

get_key_metrics(ticker, period, limit) ==
  <<"https://financialmodelingprep.com/api/v3/", "key-metrics", "/", ticker,
    "?period=", period, "&limit=", IntToStr(limit), "&apikey=", FMP_API_KEY>>

get_financial_ratios(ticker, period, limit) ==
  <<"https://financialmodelingprep.com/api/v3/", "ratios", "/", ticker,
    "?period=", period, "&limit=", IntToStr(limit), "&apikey=", FMP_API_KEY>>

\* Mutant: the growth operation asks for the plain cash-flow statement.
get_financial_growthSamePath(ticker, period, limit) ==
  <<"https://financialmodelingprep.com/api/v3/", "cash-flow-statement", "/", ticker,
    "?period=", period, "&limit=", IntToStr(limit), "&apikey=", FMP_API_KEY>>

get_financial_growth(ticker, period, limit) ==
  <<"https://financialmodelingprep.com/api/v3/", "cash-flow-statement-growth", "/", ticker,
    "?period=", period, "&limit=", IntToStr(limit), "&apikey=", FMP_API_KEY>>

\* The body of a response that arrived: a JSON document, or a body that is
\* not JSON (an error page of a gateway, no body at all).  The status code is
\* never looked at.
Bodies == {"document", "html", "empty"}

\* json.dumps(response.json()) of the provider's answer to a GET of url:
\* response.json() raises on a body that is not JSON; otherwise the text
\* returned is the provider's document, which is opaque and is named by the
\* request that fetched it.
ResponseJson(url, body) ==
  IF body = "document"
  THEN [exc |-> "none", text |-> <<"json", url>>]
  ELSE [exc |-> "JSONDecodeError", text |-> <<>>]

\* Mutant: the growth name registered with the cash-flow operation.
available_functionsSwapped ==
  [get_income_statement    |-> "get_income_statement",
   get_balance_sheet       |-> "get_balance_sheet",
   get_cash_flow_statement |-> "get_cash_flow_statement",
   get_key_metrics         |-> "get_key_metrics",
   get_financial_ratios    |-> "get_financial_ratios",
   get_financial_growth    |-> "get_cash_flow_statement"]

\* The registry: function name -> operation.
available_functions ==
  [get_income_statement    |-> "get_income_statement",
   get_balance_sheet       |-> "get_balance_sheet",
   get_cash_flow_statement |-> "get_cash_flow_statement",
   get_key_metrics         |-> "get_key_metrics",
   get_financial_ratios    |-> "get_financial_ratios",
   get_financial_growth    |-> "get_financial_growth"]

\* function_to_call(ticker=..., period=..., limit=...): the request it sends.
Request(op, a) ==
  CASE op = "get_income_statement" ->
         get_income_statement(a.ticker, a.period, a.limit)
    [] op = "get_balance_sheet" ->
         get_balance_sheet(a.ticker, a.period, a.limit)
    [] op = "get_cash_flow_statement" ->
         get_cash_flow_statement(a.ticker, a.period, a.limit)
    [] op = "get_key_metrics" ->
         get_key_metrics(a.ticker, a.period, a.limit)
    [] op = "get_financial_ratios" ->
         get_financial_ratios(a.ticker, a.period, a.limit)
    [] op = "get_financial_growth" ->
         get_financial_growth(a.ticker, a.period, a.limit)

\* ------------------------------------------------------------- tool calls
\* The argument strings the agent may emit, and json.loads of each.
ArgFull       == "{\"ticker\": \"AAPL\", \"period\": \"quarter\", \"limit\": 4}"
ArgTickerOnly == "{\"ticker\": \"AAPL\"}"
ArgMalformed  == "{\"ticker\": \"AAPL\", "

JsonValid(s) == s \in {ArgFull, ArgTickerOnly}

JsonLoads(s) ==
  CASE s = ArgFull       -> [ticker |-> "AAPL", period |-> "quarter", limit |-> 4]
    [] s = ArgTickerOnly -> [ticker |-> "AAPL"]

\* The (name, arguments) pairs a pending tool call may carry: two registered
\* names, a name outside the registry, an object without period and limit,
\* and a string that is not JSON.
CallKinds ==
  {[name |-> "get_income_statement", arguments |-> ArgFull],
   [name |-> "get_financial_growth", arguments |-> ArgFull],
   [name |-> "get_stock_price",      arguments |-> ArgFull],
   [name |-> "get_income_statement", arguments |-> ArgTickerOnly],
   [name |-> "get_financial_growth", arguments |-> ArgMalformed]}

\* The new batches of round r: 1..MaxCalls calls, with identifiers no earlier
\* batch has used.
Batches(r) ==
  UNION {
    { [k \in 1..n |-> [id |-> <<r, k>>, function |-> kinds[k]]] :
        kinds \in [1..n -> CallKinds] } : n \in 1..MaxCalls }

NoAction == [present |-> FALSE, tool_calls |-> <<>>]
EmptyAction == [present |-> TRUE, tool_calls |-> <<>>]
Pending(batch) == [present |-> TRUE, tool_calls |-> batch]

NoRun == [status |-> "none", required_action |-> NoAction]

\* ------------------------------------------------------------------- state
VARIABLES
  conversation,   \* st.session_state.conversation
  pc,             \* position inside run_assistant ("idle": not running)
  user_message,   \* run_assistant's argument
  thread_id,      \* thread.id (0: not yet created)
  run_id,         \* run.id (0: not yet created)
  run_status,     \* run.status: the status of the object runs.create returned
  runStatus,      \* the object the latest runs.retrieve returned
  i,              \* index of toolcall in toolCalls
  tool_outputs,   \* the list built for the current batch
  result,         \* the value run_assistant returns
  assistants,     \* agent service: number of assistants created
  threads,        \* agent service: thread id -> its messages, oldest first
  runs,           \* agent service: run id -> the thread it runs on
  round,          \* agent service: batches handed out for the current run
  api,            \* the latest call made to the agent service
  exc,            \* the exception run_assistant is raising ("none": none)
  invoked,        \* the calls function_to_call(...) made since the latest poll
  allWaiting,     \* every poll of this invocation answered queued/in_progress
  answered,       \* identifiers of the pending set that earlier submissions carried
  request         \* a retrieval operation applied on its own: inputs and target

vars ==
  <<conversation, pc, user_message, thread_id, run_id, run_status, runStatus,
    i, tool_outputs, result, assistants, threads, runs, round, api,
    exc, invoked, allWaiting, answered, request>>

locals == <<user_message, thread_id, run_id, run_status, runStatus, i,
            tool_outputs, result>>
service == <<assistants, threads, runs, round>>
observed == <<exc, invoked, allWaiting, answered>>

NoRequest == [op |-> "none", ticker |-> "", period |-> "", limit |-> 0, url |-> <<>>]

NoCall == [op |-> "none", thread |-> 0, run |-> 0, payload |-> <<>>]
Call(op, t, r, p) == [op |-> op, thread |-> t, run |-> r, payload |-> p]

Init ==
  /\ conversation = <<>>
  /\ pc = "idle"
  /\ user_message = None
  /\ thread_id = 0
  /\ run_id = 0
  /\ run_status = "none"
  /\ runStatus = NoRun
  /\ i = 0
  /\ tool_outputs = <<>>
  /\ result = None
  /\ assistants = 0
  /\ threads = <<>>
  /\ runs = <<>>
  /\ round = 0
  /\ api = NoCall
  /\ exc = "none"
  /\ invoked = <<>>
  /\ allWaiting = TRUE
  /\ answered = {}
  /\ request = NoRequest


\* ------------------------------------------------------- the agent service
\* Mutant: one thread made once and shared by every invocation.
ThreadsCreateShared(ths) == IF ths = <<>> THEN Append(ths, <<>>) ELSE ths

\* client.beta.threads.create(): a new, empty thread; its id is its index.
ThreadsCreate(ths) == Append(ths, <<>>)

\* client.beta.threads.messages.create(thread_id, role, content): the string
\* becomes a message with one text part, appended to the thread.
MessagesCreate(ths, tid, role, content) ==
  [ths EXCEPT ![tid] = Append(@, [role |-> role, content |-> <<content>>])]

\* The agent's own message, added by the service when the run completes.
AgentAppend(ths, tid, content) ==
  IF content = <<>> THEN ths
  ELSE [ths EXCEPT ![tid] = Append(@, [role |-> "assistant", content |-> content])]

\* Mutant: the run is started on the first thread, not on the given one.
RunsCreateOnFirstThread(rs, tid) == Append(rs, 1)

\* client.beta.threads.runs.create(thread_id, assistant_id): a new run.
RunsCreate(rs, tid) == Append(rs, tid)

Reverse(s) == [k \in 1..Len(s) |-> s[Len(s) + 1 - k]]

\* Mutant: the listing read oldest message first.
MessagesListOldestFirst(ths, tid) == ths[tid]

\* client.beta.threads.messages.list(thread_id).data: newest message first
\* (the service's default order).
MessagesList(ths, tid) == Reverse(ths[tid])

\* The identifiers a submission carries.
Ids(payload) == {payload[k].tool_call_id : k \in 1..Len(payload)}

\* A run whose pending set was answered in part only has not progressed: the
\* poll that follows the submission (call is that submission, last the answer
\* it was made for) may find the run still in requires_action with the same
\* tool calls, identifiers included.
StillPending(last, call) ==
  IF /\ call.op = "runs.submit_tool_outputs"
     /\ Len(call.payload) < Len(last.required_action.tool_calls)
  THEN {last}
  ELSE {}

\* What a poll of a run may answer in round r: a status, with a pending
\* action only under requires_action, and a non-empty batch (a new one, or
\* the one still pending) only while the bound on rounds allows one more.
PollAnswers(r, last, call) ==
  { [status |-> st, required_action |-> NoAction] : st \in Statuses }
  \cup {[status |-> "requires_action", required_action |-> EmptyAction]}
  \cup IF r < MaxRounds
       THEN { [status |-> "requires_action", required_action |-> Pending(b)] :
                b \in Batches(r + 1) }
            \cup StillPending(last, call)
       ELSE {}

\* ------------------------------------------------------ run_assistant, pure
\* Mutant: the inner test on the tool calls left out, so that a pending
\* action without tool calls runs the for loop zero times and submits.
DispatchNoInnerCheck(created, polled) ==
  IF polled.status = "requires_action" /\ polled.required_action.present
  THEN IF polled.required_action.tool_calls # <<>>
       THEN "tool_loop"
       ELSE "submit"
  ELSE IF polled.status = "completed" THEN "list_messages"
  ELSE IF created = "failed" THEN "returned"
  ELSE IF created \in {"in_progress", "queued"} THEN "sleep"
  ELSE "returned"

\* The if/elif chain of the loop body: where control goes after a poll.
\* created is run.status, polled is runStatus.
Dispatch(created, polled) ==
  IF polled.status = "requires_action" /\ polled.required_action.present
  THEN IF polled.required_action.tool_calls # <<>>
       THEN "tool_loop"
       ELSE "poll"
  ELSE IF polled.status = "completed" THEN "list_messages"
  ELSE IF created = "failed" THEN "returned"
  ELSE IF created \in {"in_progress", "queued"} THEN "sleep"
  ELSE "returned"

\* The value returned on 'completed': content[0].text.value of the first
\* message of the listing; None when the listing is empty (break).
MessageContent(data) ==
  IF data = <<>> THEN None ELSE data[1].content[1]

toolCalls == runStatus.required_action.tool_calls

\* The entry appended for a tool call that was executed.
ToolOutput(toolcall, response) ==
  [tool_call_id |-> toolcall.id, output |-> response]

\* function_name in available_functions
Registered(function_name) == function_name \in DOMAIN available_functions

\* function_to_call(**function_args) binds iff the object has exactly the
\* three parameters (none has a default); otherwise TypeError.
Binds(function_args) == DOMAIN function_args = {"ticker", "period", "limit"}

\* The entry a conversation gets: its id is the length before the append.
Entry(conv, role, content) ==
  [role |-> role, content |-> content, id |-> Len(conv)]

UserTurns == Cardinality({k \in 1..Len(conversation) : conversation[k].role = "user"})

\* --------------------------------------------------------------- stream.py
\* app(), a user input arrives: record it and call run_assistant.
UserInput ==
  /\ pc = "idle"
  /\ UserTurns < MaxTurns
  /\ \E u \in UserInputs :
       /\ conversation' = Append(conversation, Entry(conversation, "user", u))
       /\ user_message' = u
  /\ pc' = "create_assistant"
  /\ UNCHANGED <<thread_id, run_id, run_status, runStatus, i, tool_outputs,
                 result, service, api, observed, request>>

ResetLocals ==
  /\ user_message' = None
  /\ thread_id' = 0
  /\ run_id' = 0
  /\ run_status' = "none"
  /\ runStatus' = NoRun
  /\ i' = 0
  /\ tool_outputs' = <<>>
  /\ result' = None
  /\ exc' = "none"
  /\ invoked' = <<>>
  /\ allWaiting' = TRUE
  /\ answered' = {}

\* app(), run_assistant has returned: record the AI entry.
UiReturn ==
  /\ pc = "returned"
  /\ conversation' = Append(conversation, Entry(conversation, "AI", result))
  /\ pc' = "idle"
  /\ ResetLocals
  /\ UNCHANGED <<service, api, request>>

\* app(), run_assistant raised: the script run ends, no AI entry is recorded.
UiException ==
  /\ pc = "raised"
  /\ pc' = "idle"
  /\ ResetLocals
  /\ UNCHANGED <<conversation, service, api, request>>

\* ----------------------------------------------------------- run_assistant
CreateAssistant ==
  /\ pc = "create_assistant"
  /\ assistants' = assistants + 1
  /\ api' = Call("assistants.create", 0, 0, <<>>)
  /\ pc' = "create_thread"
  /\ UNCHANGED <<conversation, locals, threads, runs, round, observed, request>>

CreateThread ==
  /\ pc = "create_thread"
  /\ threads' = ThreadsCreate(threads)
  /\ thread_id' = Len(threads')
  /\ api' = Call("threads.create", thread_id', 0, <<>>)
  /\ pc' = "add_message"
  /\ UNCHANGED <<conversation, user_message, run_id, run_status, runStatus, i,
                 tool_outputs, result, assistants, runs, round, observed,
                 request>>

AddMessage ==
  /\ pc = "add_message"
  /\ threads' = MessagesCreate(threads, thread_id, "user", user_message)
  /\ api' = Call("messages.create", thread_id, 0, <<"user", user_message>>)
  /\ pc' = "create_run"
  /\ UNCHANGED <<conversation, locals, assistants, runs, round, observed,
                 request>>

CreateRun ==
  /\ pc = "create_run"
  /\ runs' = RunsCreate(runs, thread_id)
  /\ run_id' = Len(runs')
  /\ \E st \in Statuses : run_status' = st
  /\ round' = 0
  /\ api' = Call("runs.create", thread_id, run_id', <<>>)
  /\ pc' = "poll"
  /\ UNCHANGED <<conversation, user_message, thread_id, runStatus, i,
                 tool_outputs, result, assistants, threads, observed, request>>

\* One pass of the loop head: runs.retrieve and the if/elif chain on it.
Poll ==
  /\ pc = "poll"
  /\ \E answer \in PollAnswers(round, runStatus, api) :
       /\ runStatus' = answer
       /\ round' = IF answer.required_action.tool_calls # <<>>
                   THEN round + 1 ELSE round
       /\ \E produced \in IF answer.status = "completed"
                          THEN AgentMessages \cup {<<>>} ELSE {<<>>} :
            threads' = AgentAppend(threads, thread_id, produced)
       /\ pc' = Dispatch(run_status, answer)
       /\ i' = IF pc' = "tool_loop" THEN 1 ELSE i
       /\ tool_outputs' = IF pc' = "tool_loop" THEN <<>> ELSE tool_outputs
       /\ allWaiting' = (allWaiting /\ answer.status \in {"queued", "in_progress"})
       /\ answered' = IF answer \in StillPending(runStatus, api)
                      THEN answered \cup Ids(api.payload)
                      ELSE {}
  /\ api' = Call("runs.retrieve", thread_id, run_id, <<>>)
  /\ invoked' = <<>>
  /\ UNCHANGED <<conversation, user_message, thread_id, run_id, run_status,
                 result, assistants, runs, exc, request>>

\* Mutant: the submission made inside the for loop, after the first call.
AdvanceSubmitInsideLoop ==
  i' = i /\ pc' = "submit"

\* for toolcall in toolCalls: on to the next call, or past the loop.
Advance ==
  IF i < Len(toolCalls)
  THEN i' = i + 1 /\ pc' = "tool_loop"
  ELSE i' = i /\ pc' = "submit"

\* Mutant: a failed GET is caught and the loop carries on.
GetOutcomeSwallowed(arrived) == "none"

\* requests.get(url): it returns, or raises into the caller (nothing in the
\* operation or in the loop catches it).
GetOutcome(arrived) == IF arrived THEN "none" ELSE "ConnectionError"

\* The record of one call function_to_call(**function_args).
Invocation(toolcall, op, function_args, get) ==
  [call |-> toolcall.id, op |-> op, args |-> function_args, get |-> get]

\* The exception leaves run_assistant: nothing more of the batch is done.
Raise(e) ==
  /\ exc' = e
  /\ pc' = "raised"
  /\ UNCHANGED <<i, tool_outputs>>

\* One iteration of the for loop over toolCalls.
ToolCallStep ==
  /\ pc = "tool_loop"
  /\ LET toolcall == toolCalls[i]
         function_name == toolcall.function.name
     IN IF ~JsonValid(toolcall.function.arguments)
        THEN \* json.loads raises
             /\ Raise("JSONDecodeError")
             /\ invoked' = invoked
        ELSE LET function_args == JsonLoads(toolcall.function.arguments)
             IN IF Registered(function_name)
                THEN LET function_to_call == available_functions[function_name]
                     IN IF ~Binds(function_args)
                        THEN \* TypeError from the call
                             /\ Raise("TypeError")
                             /\ invoked' =
                                  Append(invoked,
                                         Invocation(toolcall, function_to_call,
                                                    function_args, "not sent"))
                        ELSE \E arrived \in BOOLEAN, body \in Bodies :
                               LET response ==
                                     ResponseJson(Request(function_to_call,
                                                          function_args), body)
                               IN /\ invoked' =
                                       Append(invoked,
                                              Invocation(toolcall, function_to_call,
                                                         function_args,
                                                         IF arrived THEN "arrived"
                                                         ELSE "failed"))
                                  /\ IF GetOutcome(arrived) # "none"
                                     THEN \* requests.get raises
                                          Raise(GetOutcome(arrived))
                                     ELSE IF response.exc # "none"
                                     THEN \* response.json() raises
                                          Raise(response.exc)
                                     ELSE /\ tool_outputs' =
                                               Append(tool_outputs,
                                                      ToolOutput(toolcall,
                                                                 response.text))
                                          /\ Advance
                                          /\ exc' = exc
                ELSE /\ tool_outputs' = tool_outputs
                     /\ Advance
                     /\ UNCHANGED <<exc, invoked>>
  /\ UNCHANGED <<conversation, user_message, thread_id, run_id, run_status,
                 runStatus, result, service, api, allWaiting, answered, request>>

\* runs.submit_tool_outputs with the list built by the for loop.  The list
\* is dead afterwards (rebound before its next read), so it is dropped here.
Submit ==
  /\ pc = "submit"
  /\ api' = Call("runs.submit_tool_outputs", thread_id, run_id, tool_outputs)
  /\ tool_outputs' = <<>>
  /\ i' = 0
  /\ pc' = "poll"
  /\ UNCHANGED <<conversation, user_message, thread_id, run_id, run_status,
                 runStatus, result, service, observed, request>>

\* The 'completed' branch: list the messages and return the first one's text.
ListMessages ==
  /\ pc = "list_messages"
  /\ result' = MessageContent(MessagesList(threads, thread_id))
  /\ api' = Call("messages.list", thread_id, 0, <<>>)
  /\ pc' = "returned"
  /\ UNCHANGED <<conversation, user_message, thread_id, run_id, run_status,
                 runStatus, i, tool_outputs, service, observed, request>>

\* time.sleep(5), then back to the loop head.
Sleep ==
  /\ pc = "sleep"
  /\ pc' = "poll"
  /\ UNCHANGED <<conversation, locals, service, api, observed, request>>

Next ==
  \/ UserInput
  \/ UiReturn
  \/ UiException
  \/ CreateAssistant
  \/ CreateThread
  \/ AddMessage
  \/ CreateRun
  \/ Poll
  \/ ToolCallStep
  \/ Submit
  \/ ListMessages
  \/ Sleep

Spec == Init /\ [][Next]_vars

\* ------------------------------------- the retrieval operations on their own
Tickers == {"AAPL", "MSFT"}
Periods == {"annual", "quarter", "weekly"}

\* The inputs are drawn first; nothing has been requested yet.
InitFetch ==
  /\ conversation = <<>>
  /\ pc = "idle"
  /\ user_message = None
  /\ thread_id = 0
  /\ run_id = 0
  /\ run_status = "none"
  /\ runStatus = NoRun
  /\ i = 0
  /\ tool_outputs = <<>>
  /\ result = None
  /\ assistants = 0
  /\ threads = <<>>
  /\ runs = <<>>
  /\ round = 0
  /\ api = NoCall
  /\ exc = "none"
  /\ invoked = <<>>
  /\ allWaiting = TRUE
  /\ answered = {}
  /\ request \in { [op |-> "none", ticker |-> t, period |-> p, limit |-> l,
                     url |-> <<>>] :
                     t \in Tickers, p \in Periods, l \in 0..MaxLimit }

\* available_functions[name](ticker, period, limit): the target it requests.
Fetch(name) ==
  /\ request.url = <<>>
  /\ request' = [request EXCEPT
                   !.op = name,
                   !.url = Request(available_functions[name], request)]
  /\ UNCHANGED <<conversation, pc, locals, service, api, observed>>

NextFetch == \E name \in DOMAIN available_functions : Fetch(name)

SpecFetch == InitFetch /\ [][NextFetch]_vars


\* ================================================================== claims
LoopPcs ==
  {"poll", "tool_loop", "submit", "list_messages", "sleep", "returned", "raised"}

Submitted == api.op = "runs.submit_tool_outputs"

UserMessage(u) == [role |-> "user", content |-> <<u>>]

\* C1: whenever a poll returns 'failed' the loop stops and the invocation
\* returns: after 'failed' has been observed the only position run_assistant
\* can be in is its return (no wait, no further poll, no tool call, no
\* submission), whatever run.status was at creation.
C1_FailedStops ==
  runStatus.status = "failed" => pc = "returned"

\* C2: when the run has reached 'failed' and run_assistant returns, the value
\* returned is a failure result, never None.
C2_FailedReturnsFailure ==
  (pc = "returned" /\ runStatus.status = "failed") => result # None

\* C3: once a poll has returned 'completed' the loop only lists the messages
\* and returns; the value returned is the text of the first content part of
\* the newest message of the invocation's thread, read through messages.list.
C3_CompletedReturnsLatestText ==
  /\ runStatus.status = "completed" => pc \in {"list_messages", "returned"}
  /\ (pc = "returned" /\ runStatus.status = "completed") =>
       /\ api.op = "messages.list"
       /\ api.thread = thread_id
       /\ LET msgs == threads[thread_id]
          IN result = msgs[Len(msgs)].content[1]

C3_Witness ==
  /\ pc = "returned"
  /\ runStatus.status = "completed"
  /\ Len(threads[thread_id]) = 2
  /\ result = "a2"

\* C4: the submission made for an observed batch holds exactly one entry per
\* pending tool call of that batch, in the batch's order.
C4_OneOutputPerPendingCall ==
  Submitted =>
    /\ Len(api.payload) = Len(toolCalls)
    /\ \A k \in 1..Len(api.payload) :
         api.payload[k].tool_call_id = toolCalls[k].id

\* C5: a pending tool call whose function name is outside the registry is
\* never passed over silently: the submission carries an entry for it.
C5_UnknownToolAnswered ==
  Submitted =>
    \A k \in 1..Len(toolCalls) :
      ~Registered(toolCalls[k].function.name) =>
        \E e \in 1..Len(api.payload) :
          api.payload[e].tool_call_id = toolCalls[k].id

\* C6: every entry of a submission is keyed by the identifier of a tool call
\* of the batch the preceding poll returned, no identifier is used by two
\* entries, and no entry is keyed by an identifier that an earlier submission
\* to the run already carried.
C6_OutputsKeyedByPendingCalls ==
  Submitted =>
    /\ \A e \in 1..Len(api.payload) :
         \E k \in 1..Len(toolCalls) :
           api.payload[e].tool_call_id = toolCalls[k].id
    /\ \A e, f \in 1..Len(api.payload) :
         api.payload[e].tool_call_id = api.payload[f].tool_call_id => e = f
    /\ Ids(api.payload) \cap answered = {}

\* C7: whenever a poll returns a status outside the five handled ones, the
\* loop stops and the invocation returns (it neither waits nor polls again).
C7_UnexpectedStops ==
  runStatus.status \in {"cancelled", "expired"} => pc = "returned"

\* C8: whenever a poll returns 'queued' or 'in_progress' the loop does not
\* terminate: it is waiting, or back at the loop head after the wait.
C8_QueuedWaits ==
  runStatus.status \in {"queued", "in_progress"} => pc \in {"sleep", "poll"}

\* C9: an invocation creates one thread, then appends the user's message with
\* role 'user' to it, then creates one run on it, and only then polls; no
\* further thread or run is created whatever is polled, and every poll and
\* submission names that thread and that run.
C9_OneSessionOneRunInOrder ==
  /\ pc \in {"create_assistant", "create_thread"} =>
       /\ thread_id = 0 /\ run_id = 0
       /\ Len(threads) = UserTurns - 1 /\ Len(runs) = UserTurns - 1
  /\ pc = "add_message" =>
       /\ Len(threads) = UserTurns /\ thread_id = Len(threads)
       /\ threads[thread_id] = <<>>
       /\ run_id = 0 /\ Len(runs) = UserTurns - 1
  /\ pc = "create_run" =>
       /\ Len(threads) = UserTurns /\ thread_id = Len(threads)
       /\ threads[thread_id] = <<UserMessage(user_message)>>
       /\ run_id = 0 /\ Len(runs) = UserTurns - 1
  /\ pc \in LoopPcs =>
       /\ Len(threads) = UserTurns /\ thread_id = Len(threads)
       /\ Len(runs) = UserTurns /\ run_id = Len(runs)
       /\ runs[run_id] = thread_id
       /\ threads[thread_id][1] = UserMessage(user_message)
       /\ api.op \in {"runs.create", "runs.retrieve",
                      "runs.submit_tool_outputs", "messages.list"}
       /\ api.thread = thread_id
       /\ api.op # "messages.list" => api.run = run_id
  /\ api.op = "runs.retrieve" =>
       /\ api.run \in 1..Len(runs)
       /\ runs[api.run] = api.thread
       /\ threads[api.thread] # <<>>

C9_Witness ==
  /\ pc = "poll"
  /\ Submitted
  /\ UserTurns = 2

\* The position a poll leads to, as a table over run.status and the answer.
C10_After(created, answer) ==
  CASE answer.status = "completed" -> "list_messages"
    [] answer.status = "requires_action" /\ answer.required_action.present ->
         IF Len(answer.required_action.tool_calls) > 0 THEN "tool_loop" ELSE "poll"
    [] OTHER ->
         IF created \in {"queued", "in_progress"} THEN "sleep" ELSE "returned"

\* C10: the n-th invocation works on the n-th thread and the n-th run only:
\* it starts from fresh locals, its calls name its own pair, the threads of
\* earlier invocations are never changed again, and where a poll leads is a
\* function of run.status and the answer alone.
C10_IndependentInvocations ==
  [][ /\ \A t \in 1..Len(threads) :
           t < UserTurns' => (t \in 1..Len(threads') /\ threads'[t] = threads[t])
      /\ Len(threads') >= Len(threads) /\ Len(runs') >= Len(runs)
      /\ \A r \in 1..Len(runs) : runs'[r] = runs[r]
      /\ \A r \in 1..Len(runs') : runs'[r] = r
      /\ pc' # "idle" =>
           /\ thread_id' \in {0, UserTurns'}
           /\ run_id' \in {0, UserTurns'}
      /\ (pc' # "idle" /\ api' # api /\ api'.op # "assistants.create") =>
           /\ api'.thread = UserTurns'
           /\ api'.run \in {0, UserTurns'}
      /\ pc' = "create_assistant" =>
           /\ thread_id' = 0 /\ run_id' = 0 /\ run_status' = "none"
           /\ runStatus' = NoRun /\ i' = 0 /\ tool_outputs' = <<>>
           /\ result' = None
      /\ pc = "poll" => pc' = C10_After(run_status, runStatus')
    ]_vars

C10_Witness ==
  /\ UserTurns = 2
  /\ Len(conversation) = 3
  /\ Submitted
  /\ api.thread = 2 /\ api.run = 2

\* C11: a GET that fails while a batch is processed ends the invocation: it
\* is the last call made for the batch (no retry, no later call), the
\* exception is raised out of run_assistant with the latest service call still
\* the poll that returned the batch (no submission, not even of the outputs
\* already collected, and no further poll), and the caller gets the exception
\* instead of a return value.
C11_TransportFailureIsFatal ==
  [][ /\ \A k \in 1..Len(invoked') :
           invoked'[k].get = "failed" =>
             /\ k = Len(invoked')
             /\ pc' = "raised"
             /\ exc' = "ConnectionError"
             /\ api'.op = "runs.retrieve"
             /\ api'.run = run_id'
      /\ pc = "raised" =>
           /\ pc' = "idle"
           /\ api' = api
           /\ conversation' = conversation
           /\ threads' = threads /\ runs' = runs
    ]_vars

C11_Witness ==
  /\ pc = "raised"
  /\ exc = "ConnectionError"
  /\ Len(tool_outputs) = 1
  /\ Len(invoked) = 2

\* C12: for every (ticker, period, limit) the six operations request targets
\* of one shape (base, path segment, ticker, then period, limit and apikey in
\* that order with the same values), and the targets of two different
\* operations differ in the path segment and nowhere else.
C12_TargetsDifferOnlyInPath ==
  request.url # <<>> =>
    LET u == request.url
    IN /\ Len(u) = 10
       /\ u[1] = "https://financialmodelingprep.com/api/v3/"
       /\ u[3] = "/" /\ u[5] = "?period=" /\ u[7] = "&limit=" /\ u[9] = "&apikey="
       /\ u[10] = FMP_API_KEY
       /\ \A other \in DOMAIN available_functions :
            LET v == Request(available_functions[other], request)
            IN /\ Len(v) = Len(u)
               /\ \A k \in (1..Len(u)) \ {2} : v[k] = u[k]
               /\ (v[2] = u[2]) <=> (other = request.op)

C12_Witness ==
  /\ request.op = "get_financial_growth"
  /\ request.url # <<>>
  /\ request.limit = 10

\* The natural number a string of decimal digits writes.
DigitValue(d) == CHOOSE n \in 0..9 : Digits[n + 1] = d

RECURSIVE StrToInt(_)
StrToInt(str) ==
  IF Len(str) = 1 THEN DigitValue(str[1])
  ELSE 10 * StrToInt(SubSeq(str, 1, Len(str) - 1)) + DigitValue(str[Len(str)])

\* C13: an operation leaves its arguments as they were and sends them as
\* given: the target carries the caller's ticker and period verbatim and the
\* decimal writing of the caller's limit, 0 being sent as "0".
C13_ArgumentsForwardedUnchanged ==
  [][ request'.url # <<>> =>
        /\ request'.ticker = request.ticker
        /\ request'.period = request.period
        /\ request'.limit = request.limit
        /\ request'.url[4] = request.ticker
        /\ request'.url[6] = request.period
        /\ StrToInt(request'.url[8]) = request.limit
        /\ request.limit = 0 => request'.url[8] = <<"0">>
    ]_vars

C13_Witness ==
  /\ request.op = "get_income_statement"
  /\ request.url # <<>>
  /\ request.limit = 0
  /\ request.period = "weekly"

C14_Names ==
  {"get_income_statement", "get_balance_sheet", "get_cash_flow_statement",
   "get_key_metrics", "get_financial_ratios", "get_financial_growth"}

\* The outputs of the batch in hand: submitted, or still being collected.
C14_Outputs == IF Submitted THEN api.payload ELSE tool_outputs

\* C14 (as stated): once the loop is through with a batch, every pending call
\* with a registered name has been answered: the operation of that name was
\* called once with the parsed arguments and the outputs hold, in the order of
\* the calls, one entry per such call pairing its identifier with the
\* operation's return value.
C14_EveryRegisteredCallExecuted ==
  (pc \in {"submit", "raised"} \/ Submitted) =>
    LET due == SelectSeq(toolCalls, LAMBDA c : c.function.name \in C14_Names)
    IN /\ Len(invoked) = Len(due)
       /\ Len(C14_Outputs) = Len(due)
       /\ \A j \in 1..Len(due) :
            /\ JsonValid(due[j].function.arguments)
            /\ Binds(JsonLoads(due[j].function.arguments))
            /\ invoked[j].call = due[j].id
            /\ invoked[j].op = due[j].function.name
            /\ invoked[j].args = JsonLoads(due[j].function.arguments)
            /\ C14_Outputs[j] =
                 [tool_call_id |-> due[j].id,
                  output |-> ResponseJson(
                               Request(due[j].function.name,
                                       JsonLoads(due[j].function.arguments)),
                               "document").text]

\* C14 (amended): of the calls the loop has reached, those whose arguments
\* parse and whose name is registered are exactly the calls made, in order,
\* each once, to the operation of that name with the parsed arguments; the
\* outputs are, in order, the calls that returned (the GET arrived and its
\* body was a JSON document), each pairing the call's identifier with the
\* return value; a call with an unregistered name is passed over and the
\* loop goes on.
C14_ReachedCallsDispatched ==
  (pc \in {"tool_loop", "submit", "raised"} \/ Submitted) =>
    LET n == IF pc = "tool_loop" THEN i - 1
             ELSE IF pc = "raised" THEN i ELSE Len(toolCalls)
        due == SelectSeq(SubSeq(toolCalls, 1, n),
                         LAMBDA c : /\ JsonValid(c.function.arguments)
                                    /\ c.function.name \in C14_Names)
        back == SelectSeq(invoked,
                          LAMBDA e : /\ e.get = "arrived"
                                     /\ ~(pc = "raised" /\ e.call = toolCalls[i].id))
    IN /\ Len(invoked) = Len(due)
       /\ \A j \in 1..Len(due) :
            /\ invoked[j].call = due[j].id
            /\ invoked[j].op = due[j].function.name
            /\ invoked[j].args = JsonLoads(due[j].function.arguments)
       /\ Len(C14_Outputs) = Len(back)
       /\ \A j \in 1..Len(back) :
            C14_Outputs[j] =
              [tool_call_id |-> back[j].call,
               output |-> ResponseJson(Request(back[j].op, back[j].args),
                                       "document").text]
       /\ pc = "raised" =>
            \/ ~JsonValid(toolCalls[i].function.arguments)
            \/ toolCalls[i].function.name \in C14_Names

C14_Witness ==
  /\ Submitted
  /\ Len(toolCalls) = 2
  /\ toolCalls[1].function.name = "get_stock_price"
  /\ toolCalls[2].function.name = "get_financial_growth"
  /\ Len(api.payload) = 1
  /\ api.payload[1].tool_call_id = toolCalls[2].id

\* C15: within one requires_action step the poll's answer stays the one being
\* worked on until the submission (no other service call in between), every
\* call of an operation for the batch has been made and has returned when the
\* submission is made, and the step after the submission is a poll of the
\* same run, reached without the wait.
C15_FetchesThenSubmitThenPoll ==
  [][ /\ pc \in {"tool_loop", "submit"} =>
           /\ runStatus' = runStatus
           /\ api.op = "runs.retrieve"
           /\ api' = api \/ (pc = "submit" /\ api'.op = "runs.submit_tool_outputs")
      /\ pc = "submit" =>
           /\ pc' = "poll"
           /\ api' = Call("runs.submit_tool_outputs", thread_id, run_id, tool_outputs)
           /\ invoked' = invoked
           /\ Len(invoked) =
                Len(SelectSeq(toolCalls, LAMBDA c : c.function.name \in C14_Names))
           /\ \A k \in 1..Len(invoked) : invoked[k].get = "arrived"
           /\ Len(tool_outputs) = Len(invoked)
      /\ Submitted =>
           /\ pc = "poll"
           /\ api'.op = "runs.retrieve"
           /\ api'.thread = api.thread /\ api'.run = api.run
    ]_vars

C15_Witness ==
  /\ Submitted
  /\ pc = "poll"
  /\ Len(invoked) = 2
  /\ Len(api.payload) = 2

\* The argument object names ticker and nothing outside ticker/period/limit.
C16_Conforms(arguments) ==
  /\ JsonValid(arguments)
  /\ "ticker" \in DOMAIN JsonLoads(arguments)
  /\ DOMAIN JsonLoads(arguments) \subseteq {"ticker", "period", "limit"}

\* The exception being raised came out of a request that was sent: the GET
\* failed, or its response could not be read.
C16_ProviderFault ==
  /\ invoked # <<>>
  /\ invoked[Len(invoked)].call = toolCalls[i].id
  /\ invoked[Len(invoked)].get \in {"failed", "arrived"}

\* C16: a pending call with a registered name and a conforming argument
\* object never makes the invocation abort with an exception of its own (a
\* failed GET or an unreadable response aside): the loop gets an output for
\* it.
C16_ConformingCallAnswered ==
  (pc = "raised" /\ ~C16_ProviderFault) =>
    ~ /\ toolCalls[i].function.name \in C14_Names
      /\ C16_Conforms(toolCalls[i].function.arguments)

\* C17: an invocation all of whose polls have answered 'queued' or
\* 'in_progress' has not left the loop: it never returns (nor raises).
C17_OnlyWaitingNeverReturns ==
  (pc \in LoopPcs /\ allWaiting) => pc \notin {"returned", "raised"}

\* C18: tool calls are worked on, operations called and a submission made
\* only while the latest poll's answer is 'requires_action' with a pending
\* action holding at least one tool call, and the submission goes to the run
\* that was polled.
C18_SubmitOnlyForPendingBatch ==
  /\ (Submitted \/ pc \in {"tool_loop", "submit"} \/ invoked # <<>>) =>
       /\ runStatus.status = "requires_action"
       /\ runStatus.required_action.present
       /\ Len(runStatus.required_action.tool_calls) > 0
  /\ Submitted => (api.thread = thread_id /\ api.run = run_id)

C18_Witness ==
  /\ Submitted
  /\ Len(toolCalls) = 1
  /\ Len(api.payload) = 1

\* C19: after any number of turns the history holds two entries per finished
\* turn, a user entry and then an AI entry, so roles alternate starting with
\* user, and every entry's id is its index.
C19_TwoEntriesPerTurn ==
  /\ \A k \in 1..Len(conversation) :
       /\ conversation[k].id = k - 1
       /\ conversation[k].role = IF k % 2 = 1 THEN "user" ELSE "AI"
  /\ pc = "idle" => Len(conversation) = 2 * UserTurns

====
